---- MODULE Spec2Model ----
(***************************************************************************)
(* A model of hub/api/dataset.py: the Dataset orchestrator on top of one   *)
(* storage root.  The durable file system below the dataset path is the    *)
(* variable disk; the Dataset object (with its root storage map fs_map and *)
(* its tensor stores) is the variable ds.  Every public method is one      *)
(* action.  A method body is a composition of steps over a machine record  *)
(*     st = [disk, self, log, error, ret, fail]                            *)
(* in program order; st.error # "none" is a raised exception, which every  *)
(* later step passes on unchanged.  st.log is the sequence of calls the    *)
(* method made on its collaborators, st.fail the one storage failure the   *)
(* environment injects into this call.                                     *)
(*                                                                         *)
(* Paths are sequences of one-character strings, so that str.startswith    *)
(* is the prefix relation on sequences.  The dataset path is not an s3     *)
(* path: username is None and _update_dataset_state does nothing.          *)
(***************************************************************************)
EXTENDS Integers, Sequences, FiniteSets, TLC

VARIABLES disk, ds, log, result, ghost

vars == <<disk, ds, log, result, ghost>>

(* ------------------------------ bounds -------------------------------- *)

\* sample counts range over 0..MaxCount
MaxCount == 2
\* an indexing expression carries at most MaxSlices slices
MaxSlices == 2

(* ------------------------------ schemas ------------------------------- *)

Leaf(kind, comp) == [kind |-> kind, compressor |-> comp, items |-> <<>>]

SchemaDict(items) == [kind |-> "SchemaDict", compressor |-> "", items |-> items]

Item(k, n) == [key |-> k, node |-> n]

NoSchema == [kind |-> "None", compressor |-> "", items |-> <<>>]

\* {a: {x: Tensor, y: Tensor}, b: Sequence}
SchemaA ==
    SchemaDict(<< Item(<<"a">>, SchemaDict(<< Item(<<"x">>, Leaf("Tensor", "LZ4")),
                                             Item(<<"y">>, Leaf("Tensor", "default")) >>)),
                  Item(<<"b">>, Leaf("Sequence", "zstd")) >>)

\* SchemaA with its keys in another order
SchemaA2 ==
    SchemaDict(<< Item(<<"b">>, Leaf("Sequence", "zstd")),
                  Item(<<"a">>, SchemaDict(<< Item(<<"y">>, Leaf("Tensor", "default")),
                                             Item(<<"x">>, Leaf("Tensor", "LZ4")) >>)) >>)

\* the top-level keys of SchemaA, other leaves below them
SchemaB ==
    SchemaDict(<< Item(<<"a">>, SchemaDict(<< Item(<<"x">>, Leaf("Tensor", "png")) >>)),
                  Item(<<"b">>, Leaf("Tensor", "default")) >>)

\* other top-level keys
SchemaC ==
    SchemaDict(<< Item(<<"a">>, Leaf("Tensor", "Png")) >>)

\* a schema whose second tensor names a compressor that does not exist
SchemaBad ==
    SchemaDict(<< Item(<<"a">>, Leaf("Tensor", "lz4")),
                  Item(<<"c">>, Leaf("Tensor", "gzip")) >>)

\* a ragged sequence below a composite key: {a: {x: Sequence, y: Tensor}}
SchemaD ==
    SchemaDict(<< Item(<<"a">>, SchemaDict(<< Item(<<"x">>, Leaf("Sequence", "default")),
                                             Item(<<"y">>, Leaf("Tensor", "default")) >>)) >>)

Schemas == {SchemaA, SchemaA2, SchemaB, SchemaC, SchemaBad}

RECURSIVE flatten_items(_, _)
flatten_items(items, root) ==
    IF items = <<>> THEN <<>>
    ELSE LET it == Head(items)
             p  == root \o <<"/">> \o it.key
         IN  (IF it.node.kind = "SchemaDict"
                THEN flatten_items(it.node.items, p)
                ELSE << [dtype |-> it.node, path |-> p] >>)
             \o flatten_items(Tail(items), root)

\* hub.schema.features.flatten: the leaves in depth-first order, as (dtype, path)
flatten(schema) == flatten_items(schema.items, <<>>)

\* schema.dict_.keys(): the top-level keys (sorted(...) of two key lists are equal
\* exactly when the key sets are, a dict having no key twice)
dict_keys(schema) == { schema.items[i].key : i \in 1..Len(schema.items) }

LeafPaths(schema) == { flatten(schema)[i].path : i \in 1..Len(flatten(schema)) }

serialize(schema) == [serialized |-> schema]

deserialize(doc) == doc.serialized

(* ------------------------------ storage ------------------------------- *)

NoMeta == [absent |-> TRUE]

NoTensors == [p \in {} |-> 0]

\* nothing at the dataset path
NoDir == [root |-> FALSE, other |-> FALSE, meta |-> NoMeta, tensors |-> NoTensors]

\* fs.rm(path, recursive=True)
fs_rm(d) == NoDir

\* fs.makedirs(path)
fs_makedirs(d) == [d EXCEPT !.root = TRUE]

\* fs.makedirs(posixpath.join(path, "--dynamic--")) below the root
fs_makedirs_tensor(d, p) ==
    IF p \in DOMAIN d.tensors THEN [d EXCEPT !.root = TRUE]
    ELSE [d EXCEPT !.root = TRUE,
                   !.tensors = [q \in DOMAIN d.tensors \cup {p} |->
                                   IF q = p THEN [count |-> 0, data |-> 0]
                                   ELSE d.tensors[q]]]

get_file_count(d) ==
    (IF d.other THEN 1 ELSE 0) + (IF d.meta = NoMeta THEN 0 ELSE 1)
    + Cardinality(DOMAIN d.tensors)

(* ------------------------------- modes -------------------------------- *)

NoMode == "None"

ValidModes == {"r", "r+", "a", "a+", "w", "w+"}

HasR(mode) == mode \in {"r", "r+"}

HasW(mode) == mode \in {"w", "w+"}

(* --------------------------- machine records -------------------------- *)

NoFail == [at |-> "none", k |-> 0]

Ev(name, key) == [ev |-> name, key |-> key]

NoKey == <<>>

Raise(st, e) == [st EXCEPT !.error = e]

Failed(st) == st.error # "none"

Logged(st, name, key) == [st EXCEPT !.log = Append(@, Ev(name, key))]

NoObj == [none |-> TRUE]


(* --------------------------- tensor stores ---------------------------- *)

\* str.lower() on the compressor names the schemas use
lower(name) ==
    CASE name = "LZ4" -> "lz4"
      [] name = "Png" -> "png"
      [] OTHER -> name

\* _get_compressor that compares the name as it is spelled
_get_compressor_as_spelled(compressor) ==
    IF compressor = "lz4" THEN [error |-> "none", codec |-> "numcodecs.LZ4"]
    ELSE IF compressor = "zstd" THEN [error |-> "none", codec |-> "numcodecs.Zstd"]
    ELSE IF compressor = "default" THEN [error |-> "none", codec |-> "default"]
    ELSE IF compressor = "png" THEN [error |-> "none", codec |-> "PngCodec"]
    ELSE [error |-> "ValueError", codec |-> "none"]

\* Dataset._get_compressor
_get_compressor(compressor) ==
    IF lower(compressor) = "lz4" THEN [error |-> "none", codec |-> "numcodecs.LZ4"]
    ELSE IF lower(compressor) = "zstd" THEN [error |-> "none", codec |-> "numcodecs.Zstd"]
    ELSE IF lower(compressor) = "default" THEN [error |-> "none", codec |-> "default"]
    ELSE IF lower(compressor) = "png" THEN [error |-> "none", codec |-> "PngCodec"]
    ELSE [error |-> "ValueError", codec |-> "none"]

\* DynamicTensor(fs_map=..., mode=..., shape=self._shape + ..., compressor=...):
\* a new store of shape[0] zero-filled samples, nothing of it durable yet
DynamicTensor_create(t, shape, codec) ==
    [path |-> t.path, kind |-> t.dtype.kind, compressor |-> codec,
     count |-> shape, data |-> 0, closed |-> FALSE]

\* DynamicTensor(fs_map=..., mode=..., shape=...) on a stored tensor: the store
\* takes its length and its data from its own storage subtree
DynamicTensor_open(t, d) ==
    [path |-> t.path, kind |-> t.dtype.kind, compressor |-> "stored",
     count |-> IF t.path \in DOMAIN d.tensors THEN d.tensors[t.path].count ELSE 0,
     data |-> IF t.path \in DOMAIN d.tensors THEN d.tensors[t.path].data ELSE 0,
     closed |-> FALSE]

\* DynamicTensor.resize_shape(size)
DynamicTensor_resize_shape(t, size) == [t EXCEPT !.count = size]

\* DynamicTensor.__setitem__(slice, value)
DynamicTensor_setitem(t, value) == [t EXCEPT !.data = value]

\* what DynamicTensor.flush() leaves in the tensor's storage subtree
DynamicTensor_stored(t) == [count |-> t.count, data |-> t.data]

\* the store holds a change that its storage subtree does not
Unflushed(t, d) ==
    IF t.path \in DOMAIN d.tensors THEN d.tensors[t.path] # DynamicTensor_stored(t) ELSE TRUE

(* ----------------------- steps of the methods ------------------------- *)

\* Dataset._store_meta: the document goes to the root storage map and is returned
_store_meta(st) ==
    LET meta == [shape |-> st.self.shape,
                 schema |-> serialize(st.self.schema),
                 version |-> 1,
                 meta_info |-> st.self.meta_information,
                 name |-> st.self.name]
    IN  IF st.fail.at = "store_meta" THEN Raise(st, "IOError")
        ELSE [Logged(st, "fs_map.set", NoKey) EXCEPT
                 !.self.fs_map.meta = meta, !.ret = meta]

\* Dataset._save_meta
_save_meta(st) ==
    LET _meta == [st.self.fs_map.meta EXCEPT !.meta_info = st.self.meta_information]
    IN  [Logged(Logged(st, "fs_map.get", NoKey), "fs_map.set", NoKey) EXCEPT
            !.self.fs_map.meta = _meta]

\* t.flush() for the tensor stores i.. of self._tensors, in order
RECURSIVE flush_tensors(_, _)
flush_tensors(st, i) ==
    IF i > Len(st.self.tensors) THEN st
    ELSE LET t == st.self.tensors[i]
         IN  flush_tensors(
                [Logged(st, "t.flush", t.path) EXCEPT
                    !.disk.tensors[t.path] = DynamicTensor_stored(t)],
                i + 1)

\* self._fs_map.flush()
fs_map_flush(st) ==
    IF st.fail.at = "flush" THEN Raise([st EXCEPT !.fail = NoFail], "IOError")
    ELSE [Logged(st, "fs_map.flush", NoKey) EXCEPT !.disk.meta = st.self.fs_map.meta]

\* flush that does not rewrite the metadata document
flush_without_save_meta(st) ==
    IF HasR(st.self.mode) THEN st
    ELSE IF ~st.self.has_tensors THEN Raise(st, "AttributeError")
    ELSE fs_map_flush(flush_tensors(st, 1))

\* flush without the early return for the modes that contain "r"
flush_in_every_mode(st) ==
    IF ~st.self.has_tensors THEN Raise(st, "AttributeError")
    ELSE fs_map_flush(_save_meta(flush_tensors(st, 1)))

\* Dataset.flush
flush(st) ==
    IF HasR(st.self.mode) THEN st
    ELSE IF ~st.self.has_tensors THEN Raise(st, "AttributeError")
    ELSE fs_map_flush(_save_meta(flush_tensors(st, 1)))

\* t.close() for the tensor stores i.. of self._tensors, in order: a store
\* persists what it holds and is then unusable
RECURSIVE close_tensors(_, _)
close_tensors(st, i) ==
    IF i > Len(st.self.tensors) THEN st
    ELSE LET t == st.self.tensors[i]
         IN  close_tensors(
                [Logged(st, "t.close", t.path) EXCEPT
                    !.disk.tensors[t.path] = DynamicTensor_stored(t),
                    !.self.tensors[i].closed = TRUE],
                i + 1)

\* self._fs_map.close()
fs_map_close(st) ==
    [Logged(st, "fs_map.close", NoKey) EXCEPT
        !.disk.meta = st.self.fs_map.meta, !.self.fs_map.closed = TRUE]

\* close that closes the tensor stores before it flushes
close_tensors_first(st) ==
    IF ~st.self.has_tensors THEN Raise(st, "AttributeError")
    ELSE LET s1 == flush(close_tensors(st, 1))
         IN  IF Failed(s1) THEN s1 ELSE fs_map_close(s1)

\* Dataset.close
close(st) ==
    LET s1 == flush(st)
    IN  IF Failed(s1) THEN s1
        ELSE IF ~s1.self.has_tensors THEN Raise(s1, "AttributeError")
        ELSE fs_map_close(close_tensors(s1, 1))

\* _check_and_prepare_dir that keeps the root of the dataset it overwrites
_check_and_prepare_dir_keep_root(st) ==
    LET d == st.disk
        mode == st.self.mode
    IN  IF d.meta # NoMeta
          THEN IF HasW(mode)
                 THEN [Logged(Logged(st, "fs.rm", NoKey), "fs.makedirs", NoKey) EXCEPT
                          !.ret = TRUE]
                 ELSE [st EXCEPT !.ret = FALSE]
          ELSE IF HasR(mode) THEN Raise(st, "HubDatasetNotFoundException")
          ELSE IF ~d.root
                 THEN [Logged(st, "fs.makedirs", NoKey) EXCEPT
                          !.disk = fs_makedirs(d), !.ret = TRUE]
          ELSE IF get_file_count(d) > 0
                 THEN IF HasW(mode) THEN Raise(st, "NotHubDatasetToOverwriteException")
                      ELSE Raise(st, "NotHubDatasetToAppendException")
          ELSE [st EXCEPT !.ret = TRUE]

\* _check_and_prepare_dir that lets a mode with "w" overwrite a directory that
\* holds no dataset
_check_and_prepare_dir_rm_foreign(st) ==
    LET d == st.disk
        mode == st.self.mode
    IN  IF d.meta # NoMeta \/ (d.root /\ HasW(mode))
          THEN IF HasW(mode)
                 THEN [Logged(Logged(st, "fs.rm", NoKey), "fs.makedirs", NoKey) EXCEPT
                          !.disk = fs_makedirs(fs_rm(d)), !.ret = TRUE]
                 ELSE [st EXCEPT !.ret = FALSE]
          ELSE IF HasR(mode) THEN Raise(st, "HubDatasetNotFoundException")
          ELSE IF ~d.root
                 THEN [Logged(st, "fs.makedirs", NoKey) EXCEPT
                          !.disk = fs_makedirs(d), !.ret = TRUE]
          ELSE IF get_file_count(d) > 0
                 THEN Raise(st, "NotHubDatasetToAppendException")
          ELSE [st EXCEPT !.ret = TRUE]

\* Dataset._check_and_prepare_dir; ret is needcreate
_check_and_prepare_dir(st) ==
    LET d == st.disk
        mode == st.self.mode
    IN  IF d.meta # NoMeta
          THEN IF HasW(mode)
                 THEN [Logged(Logged(st, "fs.rm", NoKey), "fs.makedirs", NoKey) EXCEPT
                          !.disk = fs_makedirs(fs_rm(d)), !.ret = TRUE]
                 ELSE [st EXCEPT !.ret = FALSE]
          ELSE IF HasR(mode) THEN Raise(st, "HubDatasetNotFoundException")
          ELSE IF ~d.root
                 THEN [Logged(st, "fs.makedirs", NoKey) EXCEPT
                          !.disk = fs_makedirs(d), !.ret = TRUE]
          ELSE IF get_file_count(d) > 0
                 THEN IF HasW(mode) THEN Raise(st, "NotHubDatasetToOverwriteException")
                      ELSE Raise(st, "NotHubDatasetToAppendException")
          ELSE [st EXCEPT !.ret = TRUE]

\* Dataset._get_mode; writable: whether the write probe (fs.pipe, fs.rm) succeeds
_get_mode(mode, d, writable) ==
    IF mode # NoMode
      THEN IF mode \notin ValidModes THEN [error |-> "Exception", mode |-> mode]
           ELSE [error |-> "none", mode |-> mode]
    ELSE IF ~d.root \/ d.meta = NoMeta THEN [error |-> "none", mode |-> "a"]
    ELSE IF writable THEN [error |-> "none", mode |-> "a"]
    ELSE [error |-> "none", mode |-> "r"]

\* Dataset._generate_storage_tensors, consumed by dict(...): ret is the stores built
RECURSIVE _generate_storage_tensors(_, _, _)
_generate_storage_tensors(st, flat, built) ==
    IF flat = <<>> THEN [st EXCEPT !.ret = built]
    ELSE LET t  == Head(flat)
             s1 == Logged([st EXCEPT !.disk = fs_makedirs_tensor(@, t.path)],
                          "fs.makedirs", t.path)
             c  == _get_compressor(t.dtype.compressor)
         IN  IF c.error # "none" THEN Raise(s1, c.error)
             ELSE IF st.fail = [at |-> "tensor", k |-> Len(built) + 1]
                    THEN Raise(s1, "IOError")
             ELSE _generate_storage_tensors(
                      Logged(s1, "DynamicTensor", t.path), Tail(flat),
                      Append(built, DynamicTensor_create(t, st.self.shape, c.codec)))

\* Dataset._open_storage_tensors, consumed by dict(...): ret is the stores opened
RECURSIVE _open_storage_tensors(_, _, _)
_open_storage_tensors(st, flat, built) ==
    IF flat = <<>> THEN [st EXCEPT !.ret = built]
    ELSE LET t == Head(flat)
         IN  _open_storage_tensors(
                 Logged(st, "DynamicTensor", t.path), Tail(flat),
                 Append(built, DynamicTensor_open(t, st.disk)))


(* --------------------------- the constructor -------------------------- *)

NoName == "None"

\* the shape argument: None, or a tuple of integers
ShapeNone == [given |-> FALSE, dims |-> <<>>]

Shape(dims) == [given |-> TRUE, dims |-> dims]

\* hub.utils.norm_shape: None becomes (None,), a tuple stays as it is
norm_shape_len(shape) == IF shape.given THEN Len(shape.dims) ELSE 1

\* list(range(n))
range(n) == [i \in 1..n |-> i - 1]

NewSelf(lazy, meta_information) ==
    [mode |-> NoMode, lazy |-> lazy, name |-> NoName, shape |-> 0, schema |-> NoSchema,
     meta_information |-> meta_information, meta |-> NoMeta,
     tensors |-> <<>>, has_tensors |-> FALSE, indexes |-> <<>>,
     fs_map |-> [meta |-> NoMeta, closed |-> FALSE]]

Machine(d, self, fail) ==
    [disk |-> d, self |-> self, log |-> <<>>, error |-> "none", ret |-> FALSE, fail |-> fail]

\* init_open without the comparison of the shape argument with the stored shape
init_open_any_shape(st, shape, schema) ==
    LET meta == st.self.fs_map.meta
        s1 == [Logged(st, "fs_map.get", NoKey) EXCEPT
                         !.self.meta = meta,
                         !.self.name = meta.name,
                         !.self.shape = IF shape.given THEN shape.dims[1] ELSE meta.shape,
                         !.self.schema = deserialize(meta.schema),
                         !.self.meta_information = meta.meta_info]
        s2 == _open_storage_tensors(s1, flatten(s1.self.schema), <<>>)
        s3 == [s2 EXCEPT !.self.tensors = s2.ret, !.self.has_tensors = TRUE]
    IN  IF schema # NoSchema /\ dict_keys(schema) # dict_keys(s3.self.schema)
          THEN Raise(s3, "TypeError: schema")
        ELSE s3

\* Dataset.__init__, the branch "if not needcreate"
init_open(st, shape, schema) ==
    LET meta == st.self.fs_map.meta
        s1 == [Logged(st, "fs_map.get", NoKey) EXCEPT
                         !.self.meta = meta,
                         !.self.name = meta.name,
                         !.self.shape = meta.shape,
                         !.self.schema = deserialize(meta.schema),
                         !.self.meta_information = meta.meta_info]
        s2 == _open_storage_tensors(s1, flatten(s1.self.schema), <<>>)
        s3 == [s2 EXCEPT !.self.tensors = s2.ret, !.self.has_tensors = TRUE]
    IN  IF shape.given /\ shape.dims[1] # s3.self.shape
          THEN Raise(s3, "TypeError: shape")
        ELSE IF schema # NoSchema /\ dict_keys(schema) # dict_keys(s3.self.schema)
          THEN Raise(s3, "TypeError: schema")
        ELSE s3

\* Dataset.__init__, the try block of the branch "else" (needcreate)
init_create_try(st, shape, schema) ==
    LET s1 == [st EXCEPT !.self.schema = schema, !.self.shape = shape.dims[1]]
        s2 == _store_meta(s1)
        s3 == [s2 EXCEPT !.self.meta = s2.ret]
        s4 == _generate_storage_tensors(s3, flatten(s3.self.schema), <<>>)
        s5 == [s4 EXCEPT !.self.tensors = s4.ret, !.self.has_tensors = TRUE]
    IN  IF Failed(s2) THEN s2
        ELSE IF Failed(s4) THEN s4
        ELSE flush(s5)

\* Dataset.__init__, the except clause: close() with its errors swallowed, then
\* fs.rm of the root; the exception is raised again
init_create_except(st) ==
    LET c == close([st EXCEPT !.error = "none"])
    IN  [Logged(c, "fs.rm", NoKey) EXCEPT !.disk = fs_rm(c.disk), !.error = st.error]

\* Dataset.__init__, the branch "else" (needcreate)
init_create(st, shape, schema) ==
    IF ~shape.given THEN Raise(st, "ShapeArgumentNotFoundException")
    ELSE IF schema = NoSchema THEN Raise(st, "SchemaArgumentNotFoundException")
    ELSE LET t == init_create_try(st, shape, schema)
         IN  IF Failed(t) THEN init_create_except(t) ELSE t

__init__(d, mode, shape, schema, meta_information, lazy, fail, writable) ==
    LET st0 == Machine(d, NewSelf(lazy, meta_information), fail)
        m   == _get_mode(mode, d, writable)
        s1  == _check_and_prepare_dir([st0 EXCEPT !.self.mode = m.mode])
        s2  == [s1 EXCEPT !.self.fs_map.meta = s1.disk.meta]
        s3  == IF s2.ret THEN init_create(s2, shape, schema)
               ELSE init_open(s2, shape, schema)
    IN  IF norm_shape_len(shape) # 1 THEN Raise(st0, "ShapeLengthException")
        ELSE IF m.error # "none" THEN Raise(st0, m.error)
        ELSE IF Failed(s1) THEN s1
        ELSE IF Failed(s3) THEN s3
        ELSE [s3 EXCEPT !.self.indexes = range(s3.self.shape)]

(* ------------------------------ methods ------------------------------- *)

\* t.resize_shape(int(size)) for the tensor stores i.. of self._tensors, in order
RECURSIVE resize_tensors(_, _, _)
resize_tensors(st, i, size) ==
    IF i > Len(st.self.tensors) THEN st
    ELSE IF st.fail = [at |-> "resize", k |-> i] THEN Raise(st, "IOError")
    ELSE resize_tensors(
            [Logged(st, "t.resize_shape", st.self.tensors[i].path) EXCEPT
                !.self.tensors[i] = DynamicTensor_resize_shape(@, size)],
            i + 1, size)

\* resize_shape that leaves self.indexes as it was
resize_shape_keep_indexes(st, size) ==
    IF size = st.self.shape THEN st
    ELSE LET s1 == [st EXCEPT !.self.shape = size]
             s2 == _store_meta(s1)
             s3 == [s2 EXCEPT !.self.meta = s2.ret]
         IN  resize_tensors(s3, 1, size)

\* resize_shape that stores the metadata document after the fan-out
resize_shape_meta_last(st, size) ==
    IF size = st.self.shape THEN st
    ELSE LET s1 == [st EXCEPT !.self.shape = size, !.self.indexes = range(size)]
             s2 == resize_tensors(s1, 1, size)
             s3 == _store_meta(s2)
         IN  IF Failed(s2) THEN s2 ELSE [s3 EXCEPT !.self.meta = s3.ret]

\* resize_shape without the early return for an unchanged size
resize_shape_always(st, size) ==
    LET s1 == [st EXCEPT !.self.shape = size, !.self.indexes = range(size)]
        s2 == _store_meta(s1)
        s3 == [s2 EXCEPT !.self.meta = s2.ret]
    IN  resize_tensors(s3, 1, size)

\* Dataset.resize_shape
resize_shape(st, size) ==
    IF size = st.self.shape THEN st
    ELSE LET s1 == [st EXCEPT !.self.shape = size, !.self.indexes = range(size)]
             s2 == _store_meta(s1)
             s3 == [s2 EXCEPT !.self.meta = s2.ret]
         IN  resize_tensors(s3, 1, size)

\* Dataset.append_shape
append_shape(st, size) == resize_shape(st, size + st.self.shape)

\* Dataset.rename
rename(st, name) ==
    LET s1 == _store_meta([st EXCEPT !.self.name = name])
    IN  flush([s1 EXCEPT !.self.meta = s1.ret])

\* delete that removes meta.json alone
delete_meta_only(st) ==
    IF st.disk.meta # NoMeta
      THEN [Logged(st, "fs.rm", NoKey) EXCEPT !.disk.meta = NoMeta, !.ret = TRUE]
      ELSE [st EXCEPT !.ret = FALSE]

\* Dataset.delete; ret is the value returned
delete(st) ==
    IF st.disk.meta # NoMeta
      THEN [Logged(st, "fs.rm", NoKey) EXCEPT !.disk = fs_rm(st.disk), !.ret = TRUE]
      ELSE [st EXCEPT !.ret = FALSE]

\* Dataset.__exit__(exc_type, exc_value, exc_traceback)
__exit__(st, exc_type) == close(st)

\* Dataset.keys: the keys of self._tensors, in order
keys(self) == [i \in 1..Len(self.tensors) |-> self.tensors[i].path]

KeySet(self) == { self.tensors[i].path : i \in 1..Len(self.tensors) }

KeyIndex(self, p) == CHOOSE i \in 1..Len(self.tensors) : self.tensors[i].path = p

\* __setitem__ that assigns to the first tensor whose path lies under the subpath
__setitem___under_prefix(st, subpath, slice_list, value) ==
    LET under == { i \in 1..Len(st.self.tensors) :
                      /\ Len(st.self.tensors[i].path) >= Len(subpath)
                      /\ SubSeq(st.self.tensors[i].path, 1, Len(subpath)) = subpath }
    IN  IF subpath = <<>> THEN Raise(st, "ValueError")
        ELSE IF under = {} THEN Raise(st, "KeyError")
        ELSE LET i == CHOOSE j \in under : \A k \in under : j <= k
             IN  [Logged(st, "t.setitem", subpath) EXCEPT
                     !.self.tensors[i] = DynamicTensor_setitem(@, value)]

\* Dataset.__setitem__ on the outcome (subpath, slice_list) of slice_split
__setitem__(st, subpath, slice_list, value) ==
    IF subpath = <<>> THEN Raise(st, "ValueError")
    ELSE IF subpath \notin KeySet(st.self) THEN Raise(st, "KeyError")
    ELSE [Logged(st, "t.setitem", subpath) EXCEPT
             !.self.tensors[KeyIndex(st.self, subpath)] = DynamicTensor_setitem(@, value)]


(* ------------------------------ indexing ------------------------------ *)

\* str.startswith
startswith(s, prefix) == Len(prefix) <= Len(s) /\ SubSeq(s, 1, Len(prefix)) = prefix

\* str.endswith("/")
endswith_slash(s) == s # <<>> /\ s[Len(s)] = "/"

\* str.split("/")
RECURSIVE split(_)
split(s) ==
    LET at == { i \in 1..Len(s) : s[i] = "/" }
    IN  IF at = {} THEN << s >>
        ELSE LET i == CHOOSE j \in at : \A k \in at : j <= k
             IN  << SubSeq(s, 1, i - 1) >> \o split(SubSeq(s, i + 1, Len(s)))

\* an integer index, slice(start, stop), and the default None of a slice argument
IntIndex(i) == [kind |-> "int", start |-> i, stop |-> i + 1]

Slice(a, b) == [kind |-> "slice", start |-> a, stop |-> b]

NoSlice == [kind |-> "None", start |-> 0, stop |-> 0]

\* Python's truth value of a slice argument: None and the integer 0 are false
Truthy(sl) == ~(sl.kind = "None" \/ (sl.kind = "int" /\ sl.start = 0))

DatasetView(indexes, lazy) == [view |-> "DatasetView", indexes |-> indexes, lazy |-> lazy]

TensorView(subpath, slice_, lazy) ==
    [view |-> "TensorView", subpath |-> subpath, slice_ |-> slice_, lazy |-> lazy]

ObjectView(subpath, slice_, lazy) ==
    [view |-> "ObjectView", subpath |-> subpath, slice_ |-> slice_, lazy |-> lazy]

\* view.compute(): the view is resolved by a read and the data is returned
compute(st, v) == [Logged(st, "read", v.subpath) EXCEPT !.ret = [view |-> "data", of |-> v]]

\* "view if self.lazy else view.compute()"
view_or_data(st, v) == IF st.self.lazy THEN [st EXCEPT !.ret = v] ELSE compute(st, v)

\* the loop of Dataset._get_dictionary over self.keys from position i on; the
\* nested mapping is held as its entries (path of keys inside the mapping, item)
RECURSIVE _get_dictionary_loop(_, _, _, _, _)
_get_dictionary_loop(st, subpath, slice_, i, tensor_dict) ==
    IF i > Len(st.self.tensors) THEN [st EXCEPT !.ret = tensor_dict]
    ELSE LET key == st.self.tensors[i].path
         IN  IF ~startswith(key, subpath)
               THEN _get_dictionary_loop(st, subpath, slice_, i + 1, tensor_dict)
             ELSE LET suffix_key == SubSeq(key, Len(subpath) + 1, Len(key))
                      split_key  == split(suffix_key)
                      sl == IF Truthy(slice_) THEN slice_ ELSE Slice(0, st.self.shape)
                      s1 == view_or_data(st, TensorView(key, << sl >>, st.self.lazy))
                      kept == { e \in tensor_dict : e.at # split_key }
                  IN  _get_dictionary_loop(s1, subpath, sl, i + 1,
                          kept \cup { [at |-> split_key, item |-> s1.ret] })

\* Dataset._get_dictionary
_get_dictionary(st, subpath, slice_) ==
    LET sp == IF endswith_slash(subpath) THEN subpath ELSE subpath \o << "/" >>
        r  == _get_dictionary_loop(st, sp, slice_, 1, {})
    IN  IF r.ret = {} THEN Raise(r, "KeyError")
        ELSE [r EXCEPT !.ret = [view |-> "dict", entries |-> r.ret]]

\* the schema node of a top-level key: self.schema.dict_[key]
dict_get(schema, key) ==
    (CHOOSE i \in 1..Len(schema.items) : schema.items[i].key = key) 

\* Dataset.__getitem__ on the outcome (subpath, slice_list) of slice_split; the
\* slices are integer indexes
__getitem__(st, subpath, ints) ==
    LET self == st.self
        slice_list == [i \in 1..Len(ints) |-> IntIndex(ints[i])]
        whole == Slice(0, self.shape)
        under_key == \E i \in 1..Len(self.tensors) : startswith(subpath, keys(self)[i])
    IN  IF subpath = <<>> THEN
            IF Len(slice_list) > 1 THEN Raise(st, "ValueError")
            ELSE IF Len(slice_list) = 0 THEN Raise(st, "IndexError")
            ELSE IF ints[1] >= Len(self.indexes) THEN Raise(st, "IndexError")
            ELSE [st EXCEPT !.ret = DatasetView(self.indexes[ints[1] + 1], self.lazy)]
        ELSE IF slice_list = <<>> THEN
            IF subpath \in KeySet(self)
              THEN view_or_data(st, TensorView(subpath, << whole >>, self.lazy))
            ELSE IF under_key
              THEN view_or_data(st, ObjectView(subpath, << whole >>, self.lazy))
            ELSE _get_dictionary(st, subpath, NoSlice)
        ELSE
            LET top == split(subpath)[2]
            IN  IF top \notin dict_keys(self.schema) THEN Raise(st, "KeyError")
                ELSE LET schema_obj == self.schema.items[dict_get(self.schema, top)].node
                     IN  IF subpath \in KeySet(self)
                            /\ (schema_obj.kind # "Sequence" \/ Len(slice_list) <= 1)
                           THEN view_or_data(st, TensorView(subpath, slice_list, self.lazy))
                         ELSE IF under_key
                           THEN view_or_data(st, ObjectView(subpath, slice_list, self.lazy))
                         ELSE IF Len(slice_list) > 1 THEN Raise(st, "ValueError")
                         ELSE _get_dictionary(st, subpath, slice_list[1])

\* Dataset.disable_lazy, Dataset.enable_lazy
disable_lazy(st) == [st EXCEPT !.self.lazy = FALSE]

enable_lazy(st) == [st EXCEPT !.self.lazy = TRUE]


(* ------------------------------- inputs ------------------------------- *)

ModeArgs == ValidModes \cup {NoMode, "x"}

ShapeArgs == {ShapeNone, Shape(<<1, 1>>)} \cup { Shape(<<n>>) : n \in 0..MaxCount }

SchemaArgs == Schemas \cup {NoSchema}

MetaInfos == {"{}", "{k: v}"}

\* the values written into tensors; 0 is the zero fill of a new tensor
Values == {1}

\* the storage failures the environment can inject into one constructor call
InitFails(schema) ==
    {NoFail, [at |-> "store_meta", k |-> 0], [at |-> "flush", k |-> 0]}
    \cup { [at |-> "tensor", k |-> i] : i \in 1..Len(flatten(schema)) }

\* ... and into one resize_shape call: the resize of the k-th tensor store fails
ResizeFails(self) ==
    {NoFail} \cup { [at |-> "resize", k |-> i] : i \in 1..Len(self.tensors) }

Subpaths ==
    { <<>>,
      <<"/", "a">>, <<"/", "b">>, <<"/", "c">>,
      <<"/", "a", "/", "x">>, <<"/", "a", "/", "y">>,
      <<"/", "a", "/", "x", "/", "z">>,
      <<"/", "a", "b">>,
      <<"/", "a", "/">> }

\* no slice, or a sample index followed by up to MaxSlices - 1 inner indexes
SliceLists ==
    { <<>> } \cup
    { << i >> \o [j \in 1..n |-> 0] : i \in 0..(MaxCount - 1), n \in 0..(MaxSlices - 1) }

(* ------------------------------- actions ------------------------------ *)

HasEvent(lg, name) == \E i \in 1..Len(lg) : lg[i].ev = name

Idle == [op |-> "none", args |-> <<>>, error |-> "none", value |-> FALSE]

\* the object can be used: it exists, close() has not invalidated it and its
\* storage root has not been deleted under it
Live == ds # NoObj /\ ~ds.fs_map.closed /\ disk.root

\* value: what the method returned, for the methods that return something
Outcome(op, args, st) ==
    [op |-> op, args |-> args, error |-> st.error,
     value |-> IF op \in {"__getitem__", "delete"} /\ ~Failed(st) THEN st.ret ELSE FALSE]

\* what every action does with the outcome st of the method it ran; obj is the
\* object afterwards.  ghost.torn: a resize_shape fan-out has failed on the
\* dataset that is now at the path
Finish(op, args, st, obj) ==
    /\ disk' = st.disk
    /\ ds' = obj
    /\ log' = st.log
    /\ result' = Outcome(op, args, st)
    /\ ghost' = [torn |-> IF op \in {"resize_shape", "append_shape"} /\ Failed(st) THEN TRUE
                          ELSE IF HasEvent(st.log, "fs.rm") THEN FALSE
                          ELSE ghost.torn]

\* Dataset(url, mode, shape, schema, meta_information=..., lazy=...) with the
\* arguments drawn from the given sets.  One Dataset object is in use at a time.
NewWith(modes, shapes, schemas, infos, lazies, failing) ==
    /\ ds = NoObj
    /\ result.op = "none"
    /\ \E mode \in modes, shape \in shapes, schema \in schemas,
          meta_information \in infos, lazy \in lazies :
       \E fail \in (IF failing THEN InitFails(schema) ELSE {NoFail}),
          writable \in (IF mode = NoMode THEN BOOLEAN ELSE {TRUE}) :
          LET st == __init__(disk, mode, shape, schema, meta_information, lazy, fail, writable)
          IN  Finish("__init__",
                     [mode |-> mode, shape |-> shape, schema |-> schema, fail |-> fail,
                      meta_information |-> meta_information],
                     st, IF Failed(st) THEN NoObj ELSE st.self)

\* the caller lets go of a closed or deleted object, or of the exception a failed
\* constructor raised, before it constructs the next Dataset
Discard ==
    /\ result.op # "none"
    /\ IF ds = NoObj THEN TRUE ELSE (ds.fs_map.closed \/ ~disk.root)
    /\ disk' = disk
    /\ ds' = NoObj
    /\ log' = <<>>
    /\ result' = Idle
    /\ ghost' = ghost

\* resize_shape(size); failing: the environment may make one tensor's resize fail,
\* once in the life of a dataset
ResizeWith(failing) ==
    /\ Live
    /\ \E size \in 0..MaxCount, fail \in (IF failing /\ ~ghost.torn THEN ResizeFails(ds) ELSE {NoFail}) :
          LET st == resize_shape(Machine(disk, ds, fail), size)
          IN  Finish("resize_shape", [size |-> size, fail |-> fail], st, st.self)

\* append_shape(size), as long as the sample count stays within MaxCount
AppendShapeWith(failing) ==
    /\ Live
    /\ \E size \in 0..MaxCount, fail \in (IF failing /\ ~ghost.torn THEN ResizeFails(ds) ELSE {NoFail}) :
          /\ ds.shape + size <= MaxCount
          /\ LET st == append_shape(Machine(disk, ds, fail), size)
             IN  Finish("append_shape", [size |-> size, fail |-> fail], st, st.self)

Flush ==
    /\ Live
    /\ LET st == flush(Machine(disk, ds, NoFail))
       IN  Finish("flush", <<>>, st, st.self)

Close ==
    /\ Live
    /\ LET st == close(Machine(disk, ds, NoFail))
       IN  Finish("close", <<>>, st, st.self)

\* the end of a with-block, left normally or by an exception
Exit ==
    /\ Live
    /\ \E exc_type \in {"None", "RuntimeError"} :
          LET st == __exit__(Machine(disk, ds, NoFail), exc_type)
          IN  Finish("__exit__", [exc_type |-> exc_type], st, st.self)

Delete ==
    /\ ds # NoObj
    /\ LET st == delete(Machine(disk, ds, NoFail))
       IN  Finish("delete", <<>>, st, st.self)

SetItem ==
    /\ Live
    /\ \E subpath \in Subpaths, slice_list \in SliceLists, value \in Values :
          LET st == __setitem__(Machine(disk, ds, NoFail), subpath, slice_list, value)
          IN  Finish("__setitem__", [subpath |-> subpath, slice_list |-> slice_list],
                     st, st.self)

GetItem ==
    /\ Live
    /\ \E subpath \in Subpaths, slice_list \in SliceLists :
          LET st == __getitem__(Machine(disk, ds, NoFail), subpath, slice_list)
          IN  Finish("__getitem__", [subpath |-> subpath, slice_list |-> slice_list],
                     st, st.self)

DisableLazy ==
    /\ Live
    /\ ds.lazy
    /\ LET st == disable_lazy(Machine(disk, ds, NoFail))
       IN  Finish("disable_lazy", <<>>, st, st.self)

EnableLazy ==
    /\ Live
    /\ ~ds.lazy
    /\ LET st == enable_lazy(Machine(disk, ds, NoFail))
       IN  Finish("enable_lazy", <<>>, st, st.self)

\* the caller changes the dictionary that the property meta_information hands out
SetMetaInformation ==
    /\ Live
    /\ \E v \in MetaInfos :
          LET st == [Machine(disk, ds, NoFail) EXCEPT !.self.meta_information = v]
          IN  Finish("meta_information", [value |-> v], st, st.self)

\* before the first call: nothing at the path, an empty directory, or a directory
\* that holds a file and no dataset
Init ==
    /\ disk \in { NoDir, [NoDir EXCEPT !.root = TRUE],
                  [NoDir EXCEPT !.root = TRUE, !.other = TRUE] }
    /\ ds = NoObj
    /\ log = <<>>
    /\ result = Idle
    /\ ghost = [torn |-> FALSE]

(* Resizing: a dataset is created or reopened, resized, flushed and closed. *)

LifeModes == {"r", "r+", "a", "w"}

New == NewWith(LifeModes, {ShapeNone} \cup { Shape(<<n>>) : n \in 0..MaxCount },
               {SchemaA, NoSchema}, {"{}"}, {TRUE}, FALSE)

Resize == ResizeWith(TRUE)

AppendShape == AppendShapeWith(TRUE)

Next ==
    \/ New
    \/ Discard
    \/ Resize
    \/ AppendShape
    \/ Flush
    \/ Close

Spec == Init /\ [][Next]_vars

(* Saving: flush, close, the end of a with-block and delete. *)

ResizeOk == ResizeWith(FALSE)

NextSave ==
    \/ New
    \/ Discard
    \/ ResizeOk
    \/ SetMetaInformation
    \/ Flush
    \/ Close
    \/ Exit
    \/ Delete

SpecSave == Init /\ [][NextSave]_vars

(* The constructor on every kind of argument, with storage failures. *)

NewAny == NewWith(ModeArgs, ShapeArgs, SchemaArgs, {"{}"}, {TRUE}, TRUE)

NextInit ==
    \/ NewAny
    \/ Discard
    \/ Close

SpecInit == Init /\ [][NextInit]_vars

(* Indexing and assignment on an open dataset. *)

NewLazy == NewWith({"a"}, { Shape(<<n>>) : n \in 0..MaxCount },
                   {SchemaA, SchemaC}, {"{}"}, BOOLEAN, FALSE)

NextIndex ==
    \/ NewLazy
    \/ GetItem
    \/ SetItem
    \/ DisableLazy
    \/ EnableLazy

SpecIndex == Init /\ [][NextIndex]_vars

(* Indexing on schemas with ragged sequences at the top and below a key. *)

NewSeq == NewWith({"a"}, { Shape(<<n>>) : n \in 0..MaxCount },
                  {SchemaA, SchemaD}, {"{}"}, BOOLEAN, FALSE)

NextSeq ==
    \/ NewSeq
    \/ GetItem

SpecSeq == Init /\ [][NextSeq]_vars

(* The constructor over what earlier calls left at the path, with every meta
   information. *)

NewOver == NewWith(ValidModes \cup {NoMode}, ShapeArgs, {SchemaA, SchemaC, NoSchema},
                   MetaInfos, {TRUE}, TRUE)

NextOver ==
    \/ NewOver
    \/ Discard
    \/ Close

SpecOver == Init /\ [][NextOver]_vars

(* ------------------------- the constructor's claims ------------------- *)

\* the exceptions that only the creation branch of the constructor raises
CreateErrors ==
    {"ShapeArgumentNotFoundException", "SchemaArgumentNotFoundException",
     "ValueError", "IOError"}

\* the last call was a constructor call that took the open branch: the first
\* thing that branch does is read meta.json through the root storage map
OpenCall == result.op = "__init__" /\ log # <<>> /\ log[1].ev = "fs_map.get"

NonOverwriteModes == (ValidModes \ {"w", "w+"}) \cup {NoMode}

\* C1: whenever the constructor fails after it has decided to create the dataset
\* (shape or schema argument missing, unknown compressor, storage failure while
\* the metadata document is stored, a tensor store is built or the first flush
\* runs), no storage root is left at the dataset path.
C1_CreationRollsBack ==
    (result.op = "__init__" /\ result.error \in CreateErrors) => ~disk.root

\* C2: a reopening call that supplies a schema (and no conflicting shape) succeeds
\* exactly when the supplied schema has the same set of flattened leaf paths as
\* the stored schema, and fails with the schema mismatch otherwise.
C2_SchemaAcceptedIffLeafPathsEqual ==
    (OpenCall /\ result.args.schema # NoSchema /\ result.error # "TypeError: shape")
    => /\ (result.error = "none")
            <=> (LeafPaths(result.args.schema) = LeafPaths(deserialize(disk.meta.schema)))
       /\ result.error \in {"none", "TypeError: schema"}

\* C3: when a stored dataset is reopened in a mode without "w", a shape argument
\* that differs from the stored shape makes the constructor fail and leaves the
\* storage (metadata document, tensor data) as it was; a call that succeeds with
\* a shape argument was given the stored shape; and without a shape argument the
\* call can only fail on the schema and otherwise opens the dataset with the
\* stored sample count.
C3_ReopenShape ==
    [][ (result'.op = "__init__" /\ disk.meta # NoMeta
         /\ result'.args.mode \in NonOverwriteModes)
        => LET stored == disk.meta.shape
               arg    == result'.args.shape
           IN  /\ (arg.given /\ arg # Shape(<< stored >>))
                    => (/\ result'.error \in {"TypeError: shape", "ShapeLengthException"}
                        /\ ds' = NoObj
                        /\ disk' = disk)
               /\ (arg.given /\ result'.error = "none") => (arg = Shape(<< stored >>))
               /\ (~arg.given)
                    => (/\ result'.error \in {"none", "TypeError: schema"}
                        /\ (result'.error = "none")
                             => (/\ ds'.shape = stored
                                 /\ ds'.indexes = range(stored)
                                 /\ disk' = disk))
      ]_vars

\* a reopening call in mode "a" was refused because of its shape argument
C3_Witness ==
    /\ result.op = "__init__"
    /\ result.error = "TypeError: shape"
    /\ result.args.mode = "a"
    /\ disk.meta # NoMeta
    /\ result.args.shape.dims[1] # disk.meta.shape

\* C4: when the open branch refuses the shape or the schema argument, it has not
\* constructed any tensor store yet.
C4_ValidationBeforeTensorStores ==
    (OpenCall /\ result.error \in {"TypeError: shape", "TypeError: schema"})
    => ~HasEvent(log, "DynamicTensor")

(* --------------------------- resizing claims -------------------------- *)

\* C5: as long as no resize fan-out has failed on the dataset, the sample count is
\* the same everywhere: len(dataset), the index list 0..n-1, the shape field of
\* the metadata document and the length of every tensor store; and when flush()
\* of a writable dataset returns, the durable metadata document and the durable
\* tensor data carry that count too.
C5_SampleCountAgrees ==
    (ds # NoObj /\ ~ghost.torn)
    => /\ ds.indexes = range(ds.shape)
       /\ ds.fs_map.meta.shape = ds.shape
       /\ ds.meta.shape = ds.shape
       /\ \A i \in 1..Len(ds.tensors) : ds.tensors[i].count = ds.shape
       /\ (result.op = "flush" /\ ~HasR(ds.mode))
            => /\ disk.meta.shape = ds.shape
               /\ \A i \in 1..Len(ds.tensors) :
                     disk.tensors[ds.tensors[i].path].count = ds.shape

\* a writable dataset was resized to a positive count and then flushed
C5_Witness ==
    /\ ds # NoObj
    /\ ~ghost.torn
    /\ result.op = "flush"
    /\ ~HasR(ds.mode)
    /\ ds.shape > 0
    /\ ds.meta.shape = ds.shape
    /\ Len(ds.tensors) > 1

\* C6: when the resize of the k-th tensor store fails inside resize_shape (or
\* append_shape), the error reaches the caller and nothing is undone: the stores
\* before k have the new count, the k-th and the later ones are as they were,
\* and the dataset's count, index list and metadata document already say the new
\* size.
C6_ResizeNotTransactional ==
    [][ (result'.op \in {"resize_shape", "append_shape"} /\ result'.args.fail.at = "resize"
         /\ result'.error # "none")
        => LET k   == result'.args.fail.k
               new == IF result'.op = "append_shape" THEN ds.shape + result'.args.size
                      ELSE result'.args.size
           IN  /\ result'.error = "IOError"
               /\ \A i \in 1..Len(ds.tensors) :
                     IF i < k THEN ds'.tensors[i].count = new
                     ELSE ds'.tensors[i] = ds.tensors[i]
               /\ ds'.shape = new
               /\ ds'.indexes = range(new)
               /\ ds'.meta.shape = new
               /\ ds'.fs_map.meta.shape = new
      ]_vars

\* the resize of the second tensor store failed: the first store has the new
\* count, the second the old one
C6_Witness ==
    /\ result.op = "resize_shape"
    /\ result.error = "IOError"
    /\ result.args.fail.k = 2
    /\ ds.tensors[1].count = result.args.size
    /\ ds.tensors[2].count # result.args.size
    /\ ds.shape = result.args.size

(* ---------------------------- saving claims --------------------------- *)

\* the calls flush() makes on a writable dataset, in order
FlushLog(self) ==
    [i \in 1..Len(self.tensors) |-> Ev("t.flush", self.tensors[i].path)]
    \o << Ev("fs_map.get", NoKey), Ev("fs_map.set", NoKey), Ev("fs_map.flush", NoKey) >>

\* the calls close() makes after its flush, in order
CloseLog(self) ==
    [i \in 1..Len(self.tensors) |-> Ev("t.close", self.tensors[i].path)]
    \o << Ev("fs_map.close", NoKey) >>

\* C7: flush() on a dataset whose mode has no "r" flushes every tensor store, then
\* rewrites the metadata document with the current meta information and its other
\* fields unchanged, then flushes the root storage map; afterwards no tensor
\* store and no metadata change is unflushed, and the object is as usable as it
\* was.
C7_FlushFansOut ==
    [][ (result'.op = "flush" /\ ~HasR(ds.mode))
        => /\ result'.error = "none"
           /\ log' = FlushLog(ds)
           /\ disk'.meta = [ds.fs_map.meta EXCEPT !.meta_info = ds.meta_information]
           /\ \A i \in 1..Len(ds'.tensors) : ~Unflushed(ds'.tensors[i], disk')
           /\ ds' = [ds EXCEPT !.fs_map.meta = disk'.meta]
           /\ ~ds'.fs_map.closed
      ]_vars

\* a flush made durable a meta information and a sample count that were not
\* those of the creation
C7_Witness ==
    /\ result.op = "flush"
    /\ ds # NoObj
    /\ ~HasR(ds.mode)
    /\ disk.meta.meta_info = "{k: v}"
    /\ disk.meta.shape = ds.shape
    /\ \E i \in 1..Len(ds.tensors) : disk.tensors[ds.tensors[i].path].count > 0

\* C8 as stated: close() (also at the end of a with-block, however it is left)
\* flushes every tensor store and the metadata document, and only then closes the
\* tensor stores and the root storage map.
C8_CloseFlushesEverythingFirst ==
    (result.op \in {"close", "__exit__"}) => (log = FlushLog(ds) \o CloseLog(ds))

\* C8 amended: close() (also at the end of a with-block, left normally or by an
\* exception) first runs flush() to its end and only then closes every tensor
\* store and finally the root storage map; that flush has flushed every tensor
\* store and the metadata document when the mode has no "r", and has done nothing
\* when it has.
C8_CloseCallsFlushFirst ==
    (result.op \in {"close", "__exit__"})
    => /\ result.error = "none"
       /\ log = (IF HasR(ds.mode) THEN <<>> ELSE FlushLog(ds)) \o CloseLog(ds)
       /\ ds.fs_map.closed
       /\ \A i \in 1..Len(ds.tensors) : ds.tensors[i].closed

\* a with-block on a writable dataset was left by an exception
C8_Witness ==
    /\ result.op = "__exit__"
    /\ result.args.exc_type = "RuntimeError"
    /\ ~HasR(ds.mode)
    /\ ds.fs_map.closed
    /\ HasEvent(log, "t.flush")

(* --------------------------- indexing claims -------------------------- *)

\* C9: an assignment without subpath raises ValueError, an assignment whose subpath
\* is not the path of one flattened leaf raises KeyError, and neither changes a
\* tensor store or the metadata.
C9_AssignmentSingleTensor ==
    [][ (result'.op = "__setitem__")
        => LET subpath == result'.args.subpath
           IN  /\ (subpath = <<>>)
                    => (result'.error = "ValueError" /\ ds' = ds /\ disk' = disk)
               /\ (subpath # <<>> /\ subpath \notin LeafPaths(ds.schema))
                    => (result'.error = "KeyError" /\ ds' = ds /\ disk' = disk)
      ]_vars

\* an assignment to the composite region /a, a prefix of two leaves, was refused
C9_Witness ==
    /\ result.op = "__setitem__"
    /\ result.error = "KeyError"
    /\ result.args.subpath = <<"/", "a">>
    /\ ds.schema = SchemaA

IsView(v) == v.view \in {"DatasetView", "TensorView", "ObjectView"}

\* materialized data, or a mapping all of whose items are
Materialized(v) ==
    IF v.view = "dict" THEN \A e \in v.entries : e.item.view = "data"
    ELSE v.view = "data"

\* a view, or a mapping all of whose items are views
Deferred(v) ==
    IF v.view = "dict" THEN \A e \in v.entries : IsView(e.item)
    ELSE IsView(v)

Indexed == result.op = "__getitem__" /\ result.error = "none"

\* C10: with lazy False every indexing expression (by sample index, by leaf path,
\* by sub-object path or by composite prefix) returns materialized data and never
\* a view; with lazy True every indexing expression returns a view (or a mapping
\* of views) and reads no tensor.
C10_LazyFlagDecides ==
    Indexed => IF ds.lazy THEN Deferred(result.value) /\ ~HasEvent(log, "read")
               ELSE Materialized(result.value)

(* ----------------------- composite-region claims ---------------------- *)

\* a subpath without its trailing "/"
strip_slash(p) == IF endswith_slash(p) THEN SubSeq(p, 1, Len(p) - 1) ELSE p

\* the leaf paths that lie under the path p, and whether p lies below a leaf
LeavesUnder(self, p) == { k \in KeySet(self) : startswith(k, strip_slash(p) \o << "/" >>) }

BelowLeaf(self, p) == \E k \in KeySet(self) : startswith(p, k \o << "/" >>)

\* the leaf an item of a returned mapping refers to
ItemLeaf(item) == IF item.view = "data" THEN item.of.subpath ELSE item.subpath

\* the slices an item of a returned mapping is restricted to
ItemSlices(item) == IF item.view = "data" THEN item.of.slice_ ELSE item.slice_

\* C11: indexing with a subpath that is a proper path prefix of leaf paths (and at
\* most one slice) returns a mapping that holds exactly the leaves under the
\* prefix, each under its remaining path components and referring to its own
\* leaf; a subpath that is no leaf path, lies below no leaf and is a prefix of no
\* leaf raises KeyError.  Stated for a lazy dataset, where what __getitem__
\* builds is what the caller gets.
C11_CompositeRegion ==
    (result.op = "__getitem__" /\ result.args.subpath # <<>> /\ ds.lazy
     /\ Len(result.args.slice_list) <= 1
     /\ result.args.subpath \notin KeySet(ds) /\ ~BelowLeaf(ds, result.args.subpath))
    => LET p     == result.args.subpath
           under == LeavesUnder(ds, p)
       IN  IF under = {} THEN result.error = "KeyError"
           ELSE /\ result.error = "none"
                /\ result.value.view = "dict"
                /\ { [at |-> e.at, leaf |-> ItemLeaf(e.item)] : e \in result.value.entries }
                   = { [at |-> split(SubSeq(k, Len(strip_slash(p)) + 2, Len(k))), leaf |-> k]
                       : k \in under }

\* the view that __getitem__ built, resolved or not
ViewBuilt(v) == IF v.view = "data" THEN v.of ELSE v

\* C12: indexing with the path of one leaf gives a tensor view on that leaf with
\* the given slices (the whole sample range when none is given), except that a
\* leaf that is a ragged sequence indexed with more than one slice gives an
\* object view; with at most one slice a ragged sequence gives a tensor view too.
C12_LeafRouting ==
    (result.op = "__getitem__" /\ result.args.subpath \in KeySet(ds))
    => LET p      == result.args.subpath
           ints   == result.args.slice_list
           slices == IF ints = <<>> THEN << Slice(0, ds.shape) >>
                     ELSE [i \in 1..Len(ints) |-> IntIndex(ints[i])]
           ragged == ds.tensors[KeyIndex(ds, p)].kind = "Sequence"
       IN  /\ result.error = "none"
           /\ ViewBuilt(result.value)
                = IF ragged /\ Len(ints) > 1 THEN ObjectView(p, slices, ds.lazy)
                  ELSE TensorView(p, slices, ds.lazy)

(* ------------------------ more constructor claims --------------------- *)

\* the spellings, among those the schemas use, of the four compressor names
AcceptedNames == {"lz4", "LZ4", "zstd", "default", "png", "Png"}

\* the codec each of the four names stands for
CodecFor(name) ==
    CASE name \in {"lz4", "LZ4"} -> "numcodecs.LZ4"
      [] name = "zstd"           -> "numcodecs.Zstd"
      [] name = "default"        -> "default"
      [] name \in {"png", "Png"} -> "PngCodec"
      [] OTHER                   -> "none"

\* the compressor names of a schema's leaves
CompressorNames(schema) ==
    { flatten(schema)[i].dtype.compressor : i \in 1..Len(flatten(schema)) }

\* the constructor call that ends in the next state went into the try block of
\* the creation branch, and no storage failure was injected before the tensor
\* stores were all built
CreationTried ==
    /\ result'.op = "__init__"
    /\ result'.args.shape.given
    /\ result'.args.schema # NoSchema
    /\ HasEvent(log', "fs_map.set")
    /\ result'.args.fail.at \in {"none", "flush"}

\* C13: at creation every leaf's compressor is chosen by name; lz4, zstd, default
\* and png are accepted in any case, any other name raises ValueError, and then
\* the creation is aborted: there is no object, and no tensor store (nor the
\* root) is left in storage.
C13_CompressorByName ==
    [][ CreationTried
        => LET names == CompressorNames(result'.args.schema)
           IN  IF names \subseteq AcceptedNames
                 THEN /\ result'.error # "ValueError"
                      /\ (result'.error = "none")
                           => \A i \in 1..Len(ds'.tensors) :
                                 ds'.tensors[i].compressor
                                   = CodecFor(flatten(ds'.schema)[i].dtype.compressor)
                 ELSE /\ result'.error = "ValueError"
                      /\ ds' = NoObj
                      /\ disk'.tensors = NoTensors
                      /\ ~disk'.root
      ]_vars

\* a schema whose second leaf names gzip: the first store had been built when
\* the error was raised, and nothing of it is left
C13_Witness ==
    /\ result.op = "__init__"
    /\ result.error = "ValueError"
    /\ result.args.schema = SchemaBad
    /\ HasEvent(log, "DynamicTensor")
    /\ disk.tensors = NoTensors

\* the modes that contain "w", and those that do not (no mode given: "a" or "r")
OverwriteModes == {"w", "w+"}

\* C14: on a path that holds a dataset, a mode with "w" removes the whole previous
\* root before anything new is written and takes the creation branch with the
\* caller's shape and schema, and after a successful call the metadata, the
\* tensors and the sample count are those of the call alone; a mode without "w"
\* takes the open branch and leaves the stored metadata document (and all else
\* in storage) as it was, whether the call succeeds or fails.
C14_OverwriteRecreates ==
    [][ (result'.op = "__init__" /\ disk.meta # NoMeta
         /\ norm_shape_len(result'.args.shape) = 1)
        => LET a == result'.args
           IN  IF a.mode \in OverwriteModes
                 THEN /\ Len(log') >= 2
                      /\ log'[1].ev = "fs.rm"
                      /\ log'[2].ev = "fs.makedirs"
                      /\ result'.error \notin {"TypeError: shape", "TypeError: schema"}
                      /\ (result'.error = "none")
                           => /\ ds'.shape = a.shape.dims[1]
                              /\ ds'.schema = a.schema
                              /\ disk'.meta.shape = a.shape.dims[1]
                              /\ deserialize(disk'.meta.schema) = a.schema
                              /\ disk'.meta.meta_info = a.meta_information
                              /\ DOMAIN disk'.tensors = LeafPaths(a.schema)
                              /\ \A k \in DOMAIN disk'.tensors :
                                    disk'.tensors[k] = [count |-> a.shape.dims[1], data |-> 0]
                              /\ ~disk'.other
                 ELSE /\ disk' = disk
                      /\ log' # <<>> /\ log'[1].ev = "fs_map.get"
                      /\ ~HasEvent(log', "fs.rm")
                      /\ result'.error \in {"none", "TypeError: shape", "TypeError: schema"}
      ]_vars

\* a dataset was overwritten by one with another schema and meta information
C14_Witness ==
    /\ result.op = "__init__"
    /\ result.error = "none"
    /\ result.args.mode = "w"
    /\ log[1].ev = "fs.rm"
    /\ result.args.schema = SchemaC
    /\ result.args.meta_information = "{k: v}"
    /\ disk.meta.meta_info = "{k: v}"
    /\ DOMAIN disk.tensors = LeafPaths(SchemaC)

\* the errors of a path that holds no dataset
NoDatasetErrors ==
    {"HubDatasetNotFoundException", "NotHubDatasetToOverwriteException",
     "NotHubDatasetToAppendException"}

\* C15: with no meta.json at the path the constructor creates a dataset only if
\* the mode has no "r" and the directory is absent or empty; a mode with "r"
\* raises HubDatasetNotFoundException, a non-empty directory raises
\* NotHubDatasetToOverwriteException for a mode with "w" and
\* NotHubDatasetToAppendException otherwise, and in these error cases storage
\* is left exactly as it was.
C15_NoDatasetAtPath ==
    [][ (result'.op = "__init__" /\ disk.meta = NoMeta
         /\ norm_shape_len(result'.args.shape) = 1
         /\ result'.args.mode \in ValidModes \cup {NoMode})
        => LET mode     == IF result'.args.mode = NoMode THEN "a" ELSE result'.args.mode
               nonempty == disk.root /\ disk.other
               expected == IF mode \in {"r", "r+"}
                             THEN "HubDatasetNotFoundException"
                           ELSE IF nonempty /\ mode \in {"w", "w+"}
                             THEN "NotHubDatasetToOverwriteException"
                           ELSE IF nonempty THEN "NotHubDatasetToAppendException"
                           ELSE "none"
           IN  IF expected # "none"
                 THEN result'.error = expected /\ disk' = disk /\ ds' = NoObj /\ log' = <<>>
                 ELSE /\ result'.error \notin NoDatasetErrors
                      /\ (result'.error = "none") => (ds'.mode = mode /\ disk'.meta # NoMeta)
                      /\ (result'.args.shape.given /\ result'.args.schema # NoSchema
                          /\ CompressorNames(result'.args.schema) \subseteq AcceptedNames
                          /\ result'.args.fail = NoFail)
                           => result'.error = "none"
      ]_vars

\* a mode with "w" on a directory that holds a file and no dataset
C15_Witness ==
    /\ result.op = "__init__"
    /\ result.error = "NotHubDatasetToOverwriteException"
    /\ result.args.mode = "w"
    /\ disk.root /\ disk.other /\ disk.meta = NoMeta

(* ------------------------- more indexing claims ----------------------- *)

\* the samples a slice or an integer index selects
Samples(sl) == sl.start..(sl.stop - 1)

\* C16: indexing a composite region with one sample index i below the sample
\* count gives for every leaf under the prefix a view of exactly sample i, the
\* index 0 included; only with no index does each leaf view cover the whole
\* sample range.
C16_CompositeSampleIndex ==
    (Indexed /\ result.value.view = "dict"
     /\ \A j \in 1..Len(result.args.slice_list) : result.args.slice_list[j] < ds.shape)
    => LET ints == result.args.slice_list
       IN  \A e \in result.value.entries :
              /\ Len(ItemSlices(e.item)) = 1
              /\ Samples(ItemSlices(e.item)[1])
                   = IF ints = <<>> THEN 0..(ds.shape - 1) ELSE {ints[1]}

(* ------------------------- frame and effect claims -------------------- *)

\* C17: delete() removes the whole storage root and returns True exactly when
\* meta.json exists at the path; otherwise it returns False and changes nothing
\* in storage; so the second of two consecutive delete() calls returns False.
C17_DeleteIffMeta ==
    [][ (result'.op = "delete")
        => /\ result'.error = "none"
           /\ IF disk.meta # NoMeta
                THEN /\ result'.value = TRUE
                     /\ ~disk'.root /\ ~disk'.other
                     /\ disk'.meta = NoMeta /\ disk'.tensors = NoTensors
                ELSE result'.value = FALSE /\ disk' = disk
           /\ (result.op = "delete") => (result'.value = FALSE)
      ]_vars

\* a second delete() in a row found nothing and returned False
C17_Witness ==
    /\ result.op = "delete"
    /\ result.value = FALSE
    /\ ds # NoObj
    /\ ~disk.root

\* C18: resize_shape(size) with size equal to the current sample count writes no
\* metadata document, resizes no tensor store and leaves the sample count and
\* the index list as they were; append_shape(k) does what
\* resize_shape(current count + k) does, so append_shape(0) is the same no-op.
C18_ResizeToSameSizeIsNoOp ==
    [][ /\ (result'.op = "resize_shape" /\ result'.args.size = ds.shape)
             => (result'.error = "none" /\ log' = <<>> /\ ds' = ds /\ disk' = disk)
        /\ (result'.op = "append_shape")
             => LET r == resize_shape(Machine(disk, ds, result'.args.fail),
                                      ds.shape + result'.args.size)
                IN  /\ ds' = r.self /\ disk' = r.disk /\ log' = r.log
                    /\ result'.error = r.error
                    /\ (result'.args.size = 0)
                         => (result'.error = "none" /\ log' = <<>> /\ ds' = ds /\ disk' = disk)
      ]_vars

\* resize_shape to the current count, called when the resize of a tensor store
\* would have failed: nothing was called
C18_Witness ==
    /\ result.op = "resize_shape"
    /\ result.args.size = ds.shape
    /\ result.args.fail.at = "resize"
    /\ result.error = "none"
    /\ log = <<>>
    /\ ds.shape > 0

\* C19: for a dataset whose mode contains "r", flush() flushes no tensor store,
\* does not rewrite the metadata document and does not flush the root storage
\* map; close() on it closes the tensor stores and the root map with no flush by
\* the dataset before.
C19_FlushNoOpWhenReading ==
    [][ (ds # NoObj /\ HasR(ds.mode))
        => /\ (result'.op = "flush")
                => (result'.error = "none" /\ log' = <<>> /\ ds' = ds /\ disk' = disk)
           /\ (result'.op = "close")
                => /\ result'.error = "none"
                   /\ log' = CloseLog(ds)
                   /\ ~HasEvent(log', "t.flush")
                   /\ ~HasEvent(log', "fs_map.set")
                   /\ ~HasEvent(log', "fs_map.flush")
                   /\ ds'.fs_map.closed
      ]_vars

\* flush() returned on a dataset opened with "r+" whose resized sample count is
\* not in the stored metadata document
C19_Witness ==
    /\ result.op = "flush"
    /\ ds # NoObj
    /\ ds.mode = "r+"
    /\ log = <<>>
    /\ ds.fs_map.meta.shape # disk.meta.shape

====
